---- MODULE Spec2Model ----
(***************************************************************************)
(* generate_calendar.py: log in to app.digi1.lt, fetch the teacher's       *)
(* timetable for this week and the next, convert it to an iCalendar and    *)
(* save it under docs/<PATH_SECRET>/calendar.ics.                          *)
(*                                                                         *)
(* Text is a tuple of one-character strings.  A JSON value is a record     *)
(* [t, v]: t = "absent" (the key is not in the dict), "null", "str" (v the *)
(* text) or "obj" (v a dict: a record of JSON values, one per known key).  *)
(* Instants are seconds since 1970-01-01T00:00:00Z.                        *)
(***************************************************************************)
EXTENDS Integers, Sequences, FiniteSets, TLC

VARIABLES
    USER_EMAIL,        \* os.environ.get("DIGI1_USER_EMAIL")
    USER_PASSWORD,     \* os.environ.get("DIGI1_USER_PASSWORD")
    PATH_SECRET,       \* os.environ.get("PATH_SECRET")
    pc,                \* the statement main (or a callee) is at
    now,               \* the clock datetime.now(timezone.utc) reads
    requests,          \* the HTTP requests issued so far, in order, each with
                       \* the status it was answered with
    inertia_version,   \* fetch_timetable's local
    xsrf_token,        \* fetch_timetable's local
    this_week_start,   \* fetch_timetable's local
    next_week_start,   \* fetch_timetable's local
    this_week,         \* fetch_timetable's local
    next_week,         \* fetch_timetable's local
    timetable_data,    \* main's local: what fetch_timetable returned
    day_idx,           \* convert_to_ics: position of the outer loop
    item_idx,          \* convert_to_ics: position of the inner loop
    cal,               \* convert_to_ics: the events added to the Calendar
    calendar,          \* main's local: what convert_to_ics returned
    file,              \* docs/<PATH_SECRET>/calendar.ics on disk
    prior_file,        \* what that file was when the run began
    raised,            \* the exception in flight or caught: where it was raised
                       \* and its message; NotRaised while there is none
    stdout,            \* the lines printed
    result             \* main's return value, -1 while it has not returned

vars == <<USER_EMAIL, USER_PASSWORD, PATH_SECRET, pc, now, requests,
          inertia_version, xsrf_token, this_week_start, next_week_start,
          this_week, next_week, timetable_data, day_idx, item_idx, cal,
          calendar, file, prior_file, raised, stdout, result>>

----------------------------------------------------------------------------
(* JSON values and Python's treatment of them *)

JAbsent == [t |-> "absent", v |-> <<>>]
JNull == [t |-> "null", v |-> <<>>]
JStr(s) == [t |-> "str", v |-> s]
JObj(d) == [t |-> "obj", v |-> d]

\* bool(x) for the values met here: None and "" are falsy.  A dict is falsy
\* when it has no key.
Truthy(x) ==
    \/ x.t = "str" /\ x.v # <<>>
    \/ x.t = "obj" /\ \E k \in DOMAIN x.v : x.v[k].t # "absent"

\* d.get(key): None when the key is not there.
Get(d, key) == IF d[key].t = "absent" THEN JNull ELSE d[key]

\* d.get(key, default): the default only when the key is not there.
GetDefault(d, key, default) == IF d[key].t = "absent" THEN default ELSE d[key]

\* item.get(key) or {}: the dict under key, or an empty dict.
GetOrEmpty(item, key, empty) ==
    IF Truthy(Get(item, key)) THEN Get(item, key).v ELSE empty

\* "{x}" in an f-string: str(x).
Str(x) == IF x.t = "null" THEN <<"N", "o", "n", "e">> ELSE x.v

NoName == [name |-> JAbsent]
NoUser == [first_name |-> JAbsent, last_name |-> JAbsent]

----------------------------------------------------------------------------
(* datetime.strptime(published_at, "%Y-%m-%d %H:%M:%S") *)

Digits == <<"0", "1", "2", "3", "4", "5", "6", "7", "8", "9">>
IsDigit(c) == \E i \in 1..10 : Digits[i] = c
DigitVal(c) == (CHOOSE i \in 1..10 : Digits[i] = c) - 1
InRange(c, lo, hi) == IsDigit(c) /\ DigitVal(c) >= lo /\ DigitVal(c) <= hi

\* The character at i, "" past the end.
At(s, i) == IF i >= 1 /\ i <= Len(s) THEN s[i] ELSE ""

\* The two-character alternatives of a directive's pattern:
\*   %m 1[0-2]|0[1-9]   %d 3[0-1]|[1-2]\d|0[1-9]| [1-9]   %H 2[0-3]|[0-1]\d
\*   %M [0-5]\d         %S 6[0-1]|[0-5]\d
Alt2(kind, a, b) ==
    CASE kind = "m" -> \/ a = "1" /\ InRange(b, 0, 2)
                       \/ a = "0" /\ InRange(b, 1, 9)
      [] kind = "d" -> \/ a = "3" /\ InRange(b, 0, 1)
                       \/ InRange(a, 1, 2) /\ IsDigit(b)
                       \/ a = "0" /\ InRange(b, 1, 9)
                       \/ a = " " /\ InRange(b, 1, 9)
      [] kind = "H" -> \/ a = "2" /\ InRange(b, 0, 3)
                       \/ InRange(a, 0, 1) /\ IsDigit(b)
      [] kind = "M" -> InRange(a, 0, 5) /\ IsDigit(b)
      [] kind = "S" -> \/ a = "6" /\ InRange(b, 0, 1)
                       \/ InRange(a, 0, 5) /\ IsDigit(b)

\* The one-character alternative: [1-9] for %m and %d, \d for %H, %M, %S.
Alt1(kind, a) ==
    IF kind \in {"m", "d"} THEN InRange(a, 1, 9) ELSE IsDigit(a)

\* One directive matched at i: the longer alternative first.  What follows a
\* directive is never a digit, so the shorter one cannot rescue a match.
Field(s, i, kind) ==
    LET a == At(s, i)
        b == At(s, i + 1)
    IN  IF Alt2(kind, a, b)
        THEN [ok |-> TRUE,
              val |-> (IF a = " " THEN 0 ELSE DigitVal(a)) * 10 + DigitVal(b),
              next |-> i + 2]
        ELSE IF Alt1(kind, a)
        THEN [ok |-> TRUE, val |-> DigitVal(a), next |-> i + 1]
        ELSE [ok |-> FALSE, val |-> 0, next |-> i]

\* %Y: \d\d\d\d.
YearField(s) ==
    IF \A i \in 1..4 : IsDigit(At(s, i))
    THEN [ok |-> TRUE,
          val |-> DigitVal(s[1]) * 1000 + DigitVal(s[2]) * 100
                  + DigitVal(s[3]) * 10 + DigitVal(s[4]),
          next |-> 5]
    ELSE [ok |-> FALSE, val |-> 0, next |-> 1]

\* The blank of the format is \s+: the position after the run of blanks at i.
RECURSIVE SkipBlanks(_, _)
SkipBlanks(s, i) == IF At(s, i) = " " THEN SkipBlanks(s, i + 1) ELSE i

IsLeap(y) == y % 4 = 0 /\ (y % 100 # 0 \/ y % 400 = 0)

DaysInMonth(y, m) ==
    IF m = 2 THEN (IF IsLeap(y) THEN 29 ELSE 28)
    ELSE IF m \in {4, 6, 9, 11} THEN 30 ELSE 31

NoDateTime ==
    [ok |-> FALSE, year |-> 0, month |-> 0, day |-> 0,
     hour |-> 0, minute |-> 0, second |-> 0]

\* The naive datetime, or ok = FALSE where strptime raises ValueError: the
\* text does not match, text remains after the match, or the datetime
\* constructor rejects the day of the month or a second above 59.
strptime(s) ==
    LET Y == YearField(s)
        m == Field(s, Y.next + 1, "m")
        d == Field(s, m.next + 1, "d")
        h0 == SkipBlanks(s, d.next)
        H == Field(s, h0, "H")
        M == Field(s, H.next + 1, "M")
        S == Field(s, M.next + 1, "S")
    IN  IF /\ Y.ok /\ At(s, Y.next) = "-"
           /\ m.ok /\ At(s, m.next) = "-"
           /\ d.ok /\ h0 > d.next
           /\ H.ok /\ At(s, H.next) = ":"
           /\ M.ok /\ At(s, M.next) = ":"
           /\ S.ok /\ S.next = Len(s) + 1
           /\ Y.val >= 1
           /\ d.val <= DaysInMonth(Y.val, m.val)
           /\ S.val <= 59
        THEN [ok |-> TRUE, year |-> Y.val, month |-> m.val, day |-> d.val,
              hour |-> H.val, minute |-> M.val, second |-> S.val]
        ELSE NoDateTime

----------------------------------------------------------------------------
(* Calendar arithmetic: datetime, timedelta, ZoneInfo("Europe/Vilnius") *)

SecondsPerDay == 86400

\* Days from 1970-01-01 to the civil date y-m-d (proleptic Gregorian).
DaysFromCivil(y, m, d) ==
    LET yy == IF m <= 2 THEN y - 1 ELSE y
        era == yy \div 400
        yoe == yy - era * 400
        mp == IF m > 2 THEN m - 3 ELSE m + 9
        doy == (153 * mp + 2) \div 5 + d - 1
        doe == yoe * 365 + yoe \div 4 - yoe \div 100 + doy
    IN  era * 146097 + doe - 719468

\* date.weekday() of the day with that day number: Monday is 0, Sunday 6.
WeekdayOfDay(n) == (n + 3) % 7

\* The naive datetime's wall-clock reading, as seconds.
WallSeconds(dt) ==
    DaysFromCivil(dt.year, dt.month, dt.day) * SecondsPerDay
    + dt.hour * 3600 + dt.minute * 60 + dt.second

\* The day number of the last Sunday of month m of year y (m has 31 days).
LastSunday(y, m) ==
    LET last == DaysFromCivil(y, m, 31)
    IN  last - ((WeekdayOfDay(last) + 1) % 7)

VilniusStandardOffset == 7200
VilniusSummerOffset == 10800

\* Europe/Vilnius since 2003: EET, and EEST between 01:00 UTC of the last
\* Sunday of March and 01:00 UTC of the last Sunday of October.
SummerStartUtc(y) == LastSunday(y, 3) * SecondsPerDay + 3600
SummerEndUtc(y) == LastSunday(y, 10) * SecondsPerDay + 3600

\* VilniusUtcOffset gone wrong: a fixed UTC+2.
VilniusUtcOffset_fixed(dt) == VilniusStandardOffset

\* ZoneInfo("Europe/Vilnius").utcoffset(dt) for a naive wall time with
\* fold = 0: a wall time counts as before a transition while it is below the
\* transition's UTC instant plus the larger of the two offsets, so a wall
\* time the clocks skip takes the offset before the skip and a repeated one
\* its first occurrence.
VilniusUtcOffset(dt) ==
    IF /\ WallSeconds(dt) >= SummerStartUtc(dt.year) + VilniusSummerOffset
       /\ WallSeconds(dt) < SummerEndUtc(dt.year) + VilniusSummerOffset
    THEN VilniusSummerOffset
    ELSE VilniusStandardOffset

\* start_time.replace(tzinfo=ZoneInfo("Europe/Vilnius")).astimezone(utc)
StartTimeUtc(dt) == WallSeconds(dt) - VilniusUtcOffset(dt)

\* EndTimeUtc gone wrong: the hour added on the Vilnius wall clock.
EndTimeUtc_wall(start_time_utc) ==
    LET off == IF /\ start_time_utc >= 1711846800
                  /\ start_time_utc < 1729990800
               THEN VilniusSummerOffset ELSE VilniusStandardOffset
        wall == start_time_utc + off + 3600
        off2 == IF /\ wall >= 1711846800 + VilniusSummerOffset
                   /\ wall < 1729990800 + VilniusSummerOffset
                THEN VilniusSummerOffset ELSE VilniusStandardOffset
    IN  wall - off2

\* start_time_utc + timedelta(hours=1)
EndTimeUtc(start_time_utc) == start_time_utc + 3600

----------------------------------------------------------------------------
(* convert_to_ics: one lesson record *)

UnknownSubject == <<"<", "u", "n", "k", "n", "o", "w", "n", ">">>
UnknownGrade == <<"?", " ", "k", "l", ".">>

\* LastInitial gone wrong: the whole last name instead of its first letter.
LastInitial_whole(last_name) ==
    IF Truthy(last_name) THEN last_name.v \o <<".">> ELSE <<>>

\* f"{last_name[0]}." if last_name else ""
LastInitial(last_name) ==
    IF Truthy(last_name) THEN <<last_name.v[1], ".">> ELSE <<>>

\* f"{subject} {student_grade} - {first_name} {last_initial}"
Title(item) ==
    LET user_info == GetOrEmpty(item, "user", NoUser)
        subject_info == GetOrEmpty(item, "subject", NoName)
        grade_info == GetOrEmpty(item, "grade", NoName)
        subject == GetDefault(subject_info, "name", JStr(UnknownSubject))
        student_grade == GetDefault(grade_info, "name", JStr(UnknownGrade))
        first_name == GetDefault(user_info, "first_name", JStr(<<>>))
        last_name == GetDefault(user_info, "last_name", JStr(<<>>))
    IN  Str(subject) \o <<" ">> \o Str(student_grade) \o <<" ", "-", " ">>
        \o Str(first_name) \o <<" ">> \o LastInitial(last_name)

NoEvent == [uid |-> <<>>, summary |-> <<>>, dtstart |-> 0, dtend |-> 0]

\* convert_item gone wrong: a timestamp that does not parse is skipped.
convert_item_skip_unparsed(item) ==
    LET published_at == Get(item, "published_at")
        start_time == strptime(published_at.v)
        uuid == Get(item, "uuid")
    IN  IF ~Truthy(published_at) \/ ~start_time.ok \/ ~Truthy(uuid)
        THEN [kind |-> "continue", event |-> NoEvent]
        ELSE [kind |-> "event",
              event |-> [uid |-> uuid.v, summary |-> Title(item),
                         dtstart |-> StartTimeUtc(start_time),
                         dtend |-> EndTimeUtc(StartTimeUtc(start_time))]]

\* The body of the inner loop for one item, in the order of its statements:
\* the title, the published_at check, the parse and the conversion, the uuid
\* check, the event.  kind is "continue" (the item is skipped), "raise"
\* (strptime raised ValueError) or "event".
convert_item(item) ==
    LET published_at == Get(item, "published_at")
        start_time == strptime(published_at.v)
        uuid == Get(item, "uuid")
    IN  IF ~Truthy(published_at)
        THEN [kind |-> "continue", event |-> NoEvent]
        ELSE IF ~start_time.ok
        THEN [kind |-> "raise", event |-> NoEvent]
        ELSE IF ~Truthy(uuid)
        THEN [kind |-> "continue", event |-> NoEvent]
        ELSE [kind |-> "event",
              event |-> [uid |-> uuid.v, summary |-> Title(item),
                         dtstart |-> StartTimeUtc(start_time),
                         dtend |-> EndTimeUtc(StartTimeUtc(start_time))]]

\* The position of the next item at or after (d, i) in "for day in
\* timetable_data: for item in day", <<Len + 1, 1>> when the loops are over.
RECURSIVE NextItem(_, _, _)
NextItem(data, d, i) ==
    IF d > Len(data) THEN <<d, 1>>
    ELSE IF i > Len(data[d]) THEN NextItem(data, d + 1, 1)
    ELSE <<d, i>>

\* The items of a table in the order the two loops visit them.
RECURSIVE Flatten(_)
Flatten(data) == IF data = <<>> THEN <<>> ELSE Head(data) \o Flatten(Tail(data))

----------------------------------------------------------------------------
(* The lesson records the server may return *)

Pad2(n) == <<Digits[(n \div 10) + 1], Digits[(n % 10) + 1]>>

\* A timestamp as the server writes it: YYYY-MM-DD HH:MM:SS.
Timestamp(y, m, d, H, M, S) ==
    <<Digits[(y \div 1000) + 1], Digits[((y \div 100) % 10) + 1],
      Digits[((y \div 10) % 10) + 1], Digits[(y % 10) + 1]>>
    \o <<"-">> \o Pad2(m) \o <<"-">> \o Pad2(d) \o <<" ">>
    \o Pad2(H) \o <<":">> \o Pad2(M) \o <<":">> \o Pad2(S)

Math == <<"M", "a", "t", "h">>
Grade5 == <<"5", " ", "k", "l", ".">>
Jane == <<"J", "a", "n", "e">>
Doe == <<"D", "o", "e">>
Uuid1 == <<"u", "1">>
Uuid2 == <<"u", "2">>

WinterTime == Timestamp(2024, 3, 10, 14, 0, 0)
SummerTime == Timestamp(2024, 6, 10, 14, 0, 0)
\* The same instant as WinterTime with the month and the minutes unpadded
\* and two blanks: strptime takes it.
UnpaddedTime ==
    <<"2", "0", "2", "4", "-", "3", "-", "1", "0", " ", " ",
      "1", "4", ":", "0", ":", "0", "0">>
\* ISO 8601 with a T: strptime raises.
IsoTime ==
    <<"2", "0", "2", "4", "-", "0", "3", "-", "1", "0", "T",
      "1", "4", ":", "0", "0", ":", "0", "0">>
\* The 30th of February: the pattern matches and the date is rejected.
NoSuchDay == Timestamp(2024, 2, 30, 10, 0, 0)

\* Wall times around the two transitions of 2024 (31 March, 27 October).
TransitionTimes ==
    {Timestamp(2024, 3, 31, 3, 30, 0), Timestamp(2024, 3, 31, 4, 0, 0),
     Timestamp(2024, 10, 27, 2, 59, 59), Timestamp(2024, 10, 27, 3, 30, 0),
     Timestamp(2024, 10, 27, 4, 0, 0)}

Item(uuid, published_at, subject, grade, user) ==
    [uuid |-> uuid, published_at |-> published_at, subject |-> subject,
     grade |-> grade, user |-> user]

Name(s) == JObj([name |-> s])
User(first_name, last_name) ==
    JObj([first_name |-> first_name, last_name |-> last_name])

\* A record with the usual subject, grade and user.
Lesson(uuid, published_at) ==
    Item(uuid, published_at, Name(JStr(Math)), Name(JStr(Grade5)),
         User(JStr(Jane), JStr(Doe)))

\* Records that differ in the uuid and the timestamp.
KeyRecords ==
    {Lesson(JStr(Uuid1), JStr(WinterTime)),
     Lesson(JAbsent, JStr(WinterTime)), Lesson(JStr(<<>>), JStr(WinterTime)),
     Lesson(JStr(Uuid1), JNull), Lesson(JStr(Uuid1), JStr(<<>>)),
     Lesson(JNull, JAbsent),
     Lesson(JAbsent, JStr(IsoTime)), Lesson(JStr(Uuid1), JStr(IsoTime))}

\* Records that differ in the timestamp.
TimeRecords ==
    {Lesson(JStr(Uuid2), JStr(ts)) :
        ts \in TransitionTimes \cup {SummerTime, UnpaddedTime, NoSuchDay}}

\* Records that differ in the subject, the grade and the user.
TitleRecords ==
    {Item(JStr(Uuid1), JStr(WinterTime), s, Name(JStr(Grade5)),
          User(JStr(Jane), JStr(Doe))) :
        s \in {JAbsent, Name(JAbsent), Name(JNull)}}
    \cup
    {Item(JStr(Uuid1), JStr(WinterTime), Name(JStr(Math)), JAbsent,
          User(JStr(Jane), JStr(Doe)))}
    \cup
    {Item(JStr(Uuid1), JStr(WinterTime), Name(JStr(Math)),
          Name(JStr(Grade5)), u) :
        u \in {JNull, User(JStr(Jane), JStr(<<>>)),
               User(JStr(Jane), JNull), User(JAbsent, JStr(Doe))}}

RecordPool == KeyRecords \cup TimeRecords \cup TitleRecords

\* The records of the whole-run specification: two lessons, one without a
\* timestamp, one whose timestamp does not parse.
RunPool ==
    {Lesson(JStr(Uuid1), JStr(WinterTime)),
     Lesson(JStr(Uuid2), JStr(SummerTime)),
     Lesson(JStr(Uuid1), JNull),
     Lesson(JStr(Uuid2), JStr(IsoTime))}

MaxRecords == 2
MaxWeekRecords == 1

\* The sequences of at most n elements of S.
SeqsUpTo(S, n) == UNION {[1..k -> S] : k \in 0..n}

\* The tables (days of records) of at most n records of S: no day at all, or
\* the records spread over two days in every way.
Tables(S, n) ==
    {<<>>} \cup
    {<<SubSeq(r, 1, k), SubSeq(r, k + 1, Len(r))>> :
        <<r, k>> \in {x \in SeqsUpTo(S, n) \X (0..n) : x[2] <= Len(x[1])}}

\* The tables a week's answer may carry in a whole run.
RunTables == Tables(RunPool, MaxWeekRecords)

\* The tables convert_to_ics is given on its own.
ConvertTables == Tables(RecordPool, MaxRecords)

----------------------------------------------------------------------------
(* fetch_timetable: the week windows *)

\* today.weekday() of an instant in UTC.
Weekday(t) == WeekdayOfDay(t \div SecondsPerDay)

\* t.replace(hour=23, minute=0, second=0, microsecond=0)
ReplaceHour23(t) == (t \div SecondsPerDay) * SecondsPerDay + 23 * 3600

\* today - timedelta(days=days_since_monday)
ThisMonday(today) == today - Weekday(today) * SecondsPerDay

\* this_monday.replace(hour=23, ...) - timedelta(days=1)
ThisWeekStart(today) == ReplaceHour23(ThisMonday(today)) - SecondsPerDay

\* this_week_start + timedelta(days=7)
NextWeekStart(today) == ThisWeekStart(today) + 7 * SecondsPerDay

----------------------------------------------------------------------------
(* fetch_timetable and request_timetable: the server's answers *)

\* The status codes answered; 0 stands for no answer at all (the session
\* raises ConnectionError).
Statuses == {0, 200, 403, 500}

\* RaisesForStatus gone wrong: the status is never looked at.
RaisesForStatus_never(status) == FALSE

\* The request raises, or response.raise_for_status() does: a 4xx or 5xx.
RaisesForStatus(status) == status = 0 \/ (status >= 400 /\ status < 600)

\* urllib.parse.unquote for the escapes met here: %3D is "=", %2F is "/".
RECURSIVE unquote(_)
unquote(s) ==
    IF s = <<>> THEN <<>>
    ELSE IF Len(s) >= 3 /\ SubSeq(s, 1, 3) = <<"%", "3", "D">>
    THEN <<"=">> \o unquote(SubSeq(s, 4, Len(s)))
    ELSE IF Len(s) >= 3 /\ SubSeq(s, 1, 3) = <<"%", "2", "F">>
    THEN <<"/">> \o unquote(SubSeq(s, 4, Len(s)))
    ELSE <<Head(s)>> \o unquote(Tail(s))

\* What GET / may answer: the status, whether the page has a data-page
\* attribute, whether its text is JSON, the "version" of that JSON, and the
\* XSRF-TOKEN cookie (None when the server set none).
EntryResponses ==
    [status : Statuses, has_data_page : BOOLEAN, is_json : BOOLEAN,
     version : {JAbsent, JStr(<<>>), JStr(<<"v", "1">>)},
     cookie : {JNull, JStr(<<"t", "%", "3", "D">>)}]

\* The statement of fetch_timetable that raises on the answer to GET /,
\* "" when none does.
EntryRaises(resp) ==
    IF RaisesForStatus(resp.status) THEN "get.raise_for_status"
    ELSE IF ~resp.has_data_page THEN "Could not find data-page attribute"
    ELSE IF ~resp.is_json THEN "json.loads"
    ELSE IF ~Truthy(Get([version |-> resp.version], "version"))
    THEN "Could not find inertia version"
    ELSE IF ~Truthy(resp.cookie) THEN "Could not find XSRF token"
    ELSE ""

JList(table) == [t |-> "list", v |-> table]

\* A dashboard answer that carries a table.
TableBody(table) ==
    [props |-> JObj([timetable |->
        JObj([table |-> JList(table), week |-> JStr(<<"w">>)])])]

\* Dashboard answers without props, timetable or table.
BrokenBodies ==
    {[props |-> JAbsent],
     [props |-> JObj([timetable |-> JAbsent])],
     [props |-> JObj([timetable |-> JNull])],
     [props |-> JObj([timetable |->
        JObj([table |-> JAbsent, week |-> JStr(<<"w">>)])])],
     [props |-> JObj([timetable |->
        JObj([table |-> JNull, week |-> JStr(<<"w">>)])])]}

\* What GET /teacher/dashboard may answer: a status other than 200, a 200
\* whose text is not JSON, or a 200 with a JSON body.
TimetableResponses(tables) ==
    {[status |-> st, is_json |-> TRUE, body |-> [props |-> JAbsent]] :
        st \in Statuses \ {200}}
    \cup {[status |-> 200, is_json |-> FALSE, body |-> [props |-> JAbsent]]}
    \cup {[status |-> 200, is_json |-> TRUE, body |-> b] : b \in BrokenBodies}
    \cup {[status |-> 200, is_json |-> TRUE, body |-> TableBody(t)] :
            t \in tables}

\* The statement of request_timetable that raises on the answer, "" when it
\* returns the table.
TimetableRaises(resp) ==
    LET props == Get(resp.body, "props")
        timetable == Get(props.v, "timetable")
        table == Get(timetable.v, "table")
    IN  IF RaisesForStatus(resp.status) THEN "get.raise_for_status"
        ELSE IF ~resp.is_json THEN "response.json"
        ELSE IF ~Truthy(props) THEN "Response missing 'props'"
        ELSE IF ~Truthy(timetable) THEN "Response missing 'timetable'"
        ELSE IF table.t = "null" THEN "Response missing 'table'"
        ELSE ""

\* The table request_timetable returns.
TimetableTable(resp) == resp.body.props.v.timetable.v.table.v

Request(method, url, week_start, version, token, status) ==
    [method |-> method, url |-> url, weekStart |-> week_start,
     inertia |-> version, xsrf |-> token, status |-> status]

NotRaised == [at |-> "", error |-> ""]
Raise(at, error) == [at |-> at, error |-> error]

\* FetchResult gone wrong: next week's records first.
FetchResult_swapped(this, next) == next \o this

\* this_week + next_week
FetchResult(this, next) == this \o next

----------------------------------------------------------------------------
(* The output file *)

\* cal.to_ical(): the VCALENDAR head, the VEVENTs in order, END:VCALENDAR.
to_ical(events) == [head |-> TRUE, events |-> events, tail |-> TRUE]

NoFile == [exists |-> FALSE, bytes |-> [head |-> FALSE, events |-> <<>>, tail |-> FALSE]]

\* The file an earlier run left.
OldFile ==
    [exists |-> TRUE,
     bytes |-> to_ical(<<[uid |-> <<"o", "l", "d">>, summary |-> Math,
                          dtstart |-> 1709539200, dtend |-> 1709542800]>>)]

\* open(output_path, "wb"): the file exists and is empty.
Truncated == [exists |-> TRUE, bytes |-> [head |-> FALSE, events |-> <<>>, tail |-> FALSE]]

\* What the file may hold when f.write raises part way: nothing, or the head
\* and some of the events, and no END:VCALENDAR.
PartialFiles(events) ==
    {Truncated} \cup
    {[exists |-> TRUE,
      bytes |-> [head |-> TRUE, events |-> SubSeq(events, 1, k), tail |-> FALSE]] :
        k \in 0..Len(events)}

----------------------------------------------------------------------------
(* The run: main and what it calls, one action per step *)

EnvValues == {JNull, JStr(<<>>), JStr(<<"x">>)}

\* not USER_EMAIL or not USER_PASSWORD
CredentialsMissing == ~Truthy(USER_EMAIL) \/ ~Truthy(USER_PASSWORD)

\* SecretMissing gone wrong: main does not look at PATH_SECRET.
SecretMissing_unchecked == FALSE

\* not PATH_SECRET
SecretMissing == ~Truthy(PATH_SECRET)

\* main up to the try: the two configuration checks, then the first print.
Main ==
    /\ pc = "main"
    /\ IF CredentialsMissing
       THEN /\ stdout' = Append(stdout,
                    "DIGI1_USER_EMAIL and DIGI1_USER_PASSWORD must be set")
            /\ result' = 1
            /\ pc' = "done"
       ELSE IF SecretMissing
       THEN /\ stdout' = Append(stdout, "PATH_SECRET must be set")
            /\ result' = 1
            /\ pc' = "done"
       ELSE /\ stdout' = Append(stdout, "Fetching timetable...")
            /\ result' = result
            /\ pc' = "get_entry"
    /\ UNCHANGED <<USER_EMAIL, USER_PASSWORD, PATH_SECRET, now, requests,
                   inertia_version, xsrf_token, this_week_start,
                   next_week_start, this_week, next_week, timetable_data,
                   day_idx, item_idx, cal, calendar, file, prior_file, raised>>

\* fetch_timetable: the session, GET /, the version and the token.
GetEntry ==
    /\ pc = "get_entry"
    /\ \E resp \in EntryResponses :
        /\ requests' = Append(requests,
                Request("GET", "https://app.digi1.lt/", 0, <<>>, <<>>,
                        resp.status))
        /\ IF EntryRaises(resp) # ""
           THEN /\ raised' = Raise("get_entry", EntryRaises(resp))
                /\ pc' = "except"
                /\ UNCHANGED <<inertia_version, xsrf_token>>
           ELSE /\ inertia_version' = resp.version.v
                /\ xsrf_token' = unquote(resp.cookie.v)
                /\ pc' = "login"
                /\ raised' = raised
    /\ UNCHANGED <<USER_EMAIL, USER_PASSWORD, PATH_SECRET, now,
                   this_week_start, next_week_start, this_week, next_week,
                   timetable_data, day_idx, item_idx, cal, calendar, file,
                   prior_file, stdout, result>>

\* fetch_timetable: POST /login.
Login ==
    /\ pc = "login"
    /\ \E status \in Statuses :
        /\ requests' = Append(requests,
                Request("POST", "https://app.digi1.lt/login", 0,
                        inertia_version, xsrf_token, status))
        /\ IF RaisesForStatus(status)
           THEN /\ raised' = Raise("login", "post.raise_for_status")
                /\ pc' = "except"
           ELSE /\ raised' = raised
                /\ pc' = "week_start"
    /\ UNCHANGED <<USER_EMAIL, USER_PASSWORD, PATH_SECRET, now,
                   inertia_version, xsrf_token, this_week_start,
                   next_week_start, this_week, next_week, timetable_data,
                   day_idx, item_idx, cal, calendar, file, prior_file,
                   stdout, result>>

\* fetch_timetable: the two week starts from the clock.
WeekStart ==
    /\ pc = "week_start"
    /\ this_week_start' = ThisWeekStart(now)
    /\ next_week_start' = NextWeekStart(now)
    /\ pc' = "this_week"
    /\ UNCHANGED <<USER_EMAIL, USER_PASSWORD, PATH_SECRET, now, requests,
                   inertia_version, xsrf_token, this_week, next_week,
                   timetable_data, day_idx, item_idx, cal, calendar, file,
                   prior_file, raised, stdout, result>>

\* request_timetable(session, xsrf_token, inertia_version, this_week_start)
RequestThisWeek ==
    /\ pc = "this_week"
    /\ \E resp \in TimetableResponses(RunTables) :
        /\ requests' = Append(requests,
                Request("GET", "https://app.digi1.lt/teacher/dashboard",
                        this_week_start, inertia_version, xsrf_token,
                        resp.status))
        /\ IF TimetableRaises(resp) # ""
           THEN /\ raised' = Raise("this_week", TimetableRaises(resp))
                /\ pc' = "except"
                /\ this_week' = this_week
           ELSE /\ this_week' = TimetableTable(resp)
                /\ pc' = "next_week"
                /\ raised' = raised
    /\ UNCHANGED <<USER_EMAIL, USER_PASSWORD, PATH_SECRET, now,
                   inertia_version, xsrf_token, this_week_start,
                   next_week_start, next_week, timetable_data, day_idx,
                   item_idx, cal, calendar, file, prior_file, stdout, result>>

\* request_timetable(session, xsrf_token, inertia_version, next_week_start)
RequestNextWeek ==
    /\ pc = "next_week"
    /\ \E resp \in TimetableResponses(RunTables) :
        /\ requests' = Append(requests,
                Request("GET", "https://app.digi1.lt/teacher/dashboard",
                        next_week_start, inertia_version, xsrf_token,
                        resp.status))
        /\ IF TimetableRaises(resp) # ""
           THEN /\ raised' = Raise("next_week", TimetableRaises(resp))
                /\ pc' = "except"
                /\ next_week' = next_week
           ELSE /\ next_week' = TimetableTable(resp)
                /\ pc' = "fetch_return"
                /\ raised' = raised
    /\ UNCHANGED <<USER_EMAIL, USER_PASSWORD, PATH_SECRET, now,
                   inertia_version, xsrf_token, this_week_start,
                   next_week_start, this_week, timetable_data, day_idx,
                   item_idx, cal, calendar, file, prior_file, stdout, result>>

\* fetch_timetable returns this_week + next_week; main prints and calls
\* convert_to_ics.
FetchReturn ==
    /\ pc = "fetch_return"
    /\ timetable_data' = FetchResult(this_week, next_week)
    /\ stdout' = Append(stdout, "Converting to ICS format...")
    /\ pc' = "convert_begin"
    /\ UNCHANGED <<USER_EMAIL, USER_PASSWORD, PATH_SECRET, now, requests,
                   inertia_version, xsrf_token, this_week_start,
                   next_week_start, this_week, next_week, day_idx, item_idx,
                   cal, calendar, file, prior_file, raised, result>>

\* convert_to_ics: the empty Calendar with its five properties.
ConvertBegin ==
    /\ pc = "convert_begin"
    /\ cal' = <<>>
    /\ day_idx' = 1
    /\ item_idx' = 1
    /\ pc' = "convert_loop"
    /\ UNCHANGED <<USER_EMAIL, USER_PASSWORD, PATH_SECRET, now, requests,
                   inertia_version, xsrf_token, this_week_start,
                   next_week_start, this_week, next_week, timetable_data,
                   calendar, file, prior_file, raised, stdout, result>>

\* convert_to_ics: the body of the inner loop for the next item.  When it
\* raises, day_idx and item_idx stay on the item that raised.
ConvertItem ==
    /\ pc = "convert_loop"
    /\ NextItem(timetable_data, day_idx, item_idx)[1] <= Len(timetable_data)
    /\ LET at == NextItem(timetable_data, day_idx, item_idx)
           out == convert_item(timetable_data[at[1]][at[2]])
       IN  /\ day_idx' = at[1]
           /\ item_idx' = IF out.kind = "raise" THEN at[2] ELSE at[2] + 1
           /\ cal' = IF out.kind = "event" THEN Append(cal, out.event) ELSE cal
           /\ raised' = IF out.kind = "raise"
                        THEN Raise("convert", "strptime") ELSE raised
           /\ pc' = IF out.kind = "raise" THEN "except" ELSE "convert_loop"
    /\ UNCHANGED <<USER_EMAIL, USER_PASSWORD, PATH_SECRET, now, requests,
                   inertia_version, xsrf_token, this_week_start,
                   next_week_start, this_week, next_week, timetable_data,
                   calendar, file, prior_file, stdout, result>>

\* convert_to_ics returns cal once the loops are over; main prints and calls
\* save_calendar.
ConvertReturn ==
    /\ pc = "convert_loop"
    /\ NextItem(timetable_data, day_idx, item_idx)[1] > Len(timetable_data)
    /\ calendar' = cal
    /\ stdout' = Append(stdout, "Saving calendar...")
    /\ pc' = "save"
    /\ UNCHANGED <<USER_EMAIL, USER_PASSWORD, PATH_SECRET, now, requests,
                   inertia_version, xsrf_token, this_week_start,
                   next_week_start, this_week, next_week, timetable_data,
                   day_idx, item_idx, cal, file, prior_file, raised, result>>

\* save_calendar: the PATH_SECRET check and os.makedirs, which may fail.
SaveCalendar ==
    /\ pc = "save"
    /\ \E made \in BOOLEAN :
        IF ~Truthy(PATH_SECRET)
        THEN /\ raised' = Raise("save",
                        "PATH_SECRET environment variable not set")
             /\ pc' = "except"
        ELSE IF ~made
        THEN /\ raised' = Raise("save", "os.makedirs")
             /\ pc' = "except"
        ELSE /\ raised' = raised
             /\ pc' = "open"
    /\ UNCHANGED <<USER_EMAIL, USER_PASSWORD, PATH_SECRET, now, requests,
                   inertia_version, xsrf_token, this_week_start,
                   next_week_start, this_week, next_week, timetable_data,
                   day_idx, item_idx, cal, calendar, file, prior_file,
                   stdout, result>>

\* save_calendar: open(output_path, "wb") empties the file, or fails and
\* leaves it.
OpenFile ==
    /\ pc = "open"
    /\ \E opened \in BOOLEAN :
        IF opened
        THEN /\ file' = Truncated
             /\ raised' = raised
             /\ pc' = "write"
        ELSE /\ file' = file
             /\ raised' = Raise("save", "open")
             /\ pc' = "except"
    /\ UNCHANGED <<USER_EMAIL, USER_PASSWORD, PATH_SECRET, now, requests,
                   inertia_version, xsrf_token, this_week_start,
                   next_week_start, this_week, next_week, timetable_data,
                   day_idx, item_idx, cal, calendar, prior_file, stdout,
                   result>>

\* save_calendar: f.write(cal.to_ical()) and the close; then the prints and
\* return 0.  A write that fails leaves what it had written.
WriteFile ==
    /\ pc = "write"
    /\ \E written \in BOOLEAN :
        IF written
        THEN /\ file' = [exists |-> TRUE, bytes |-> to_ical(calendar)]
             /\ stdout' = stdout \o <<"Calendar saved to", "Done!">>
             /\ result' = 0
             /\ raised' = raised
             /\ pc' = "done"
        ELSE /\ file' \in PartialFiles(calendar)
             /\ stdout' = stdout
             /\ result' = result
             /\ raised' = Raise("save", "f.write")
             /\ pc' = "except"
    /\ UNCHANGED <<USER_EMAIL, USER_PASSWORD, PATH_SECRET, now, requests,
                   inertia_version, xsrf_token, this_week_start,
                   next_week_start, this_week, next_week, timetable_data,
                   day_idx, item_idx, cal, calendar, prior_file>>

\* main's except Exception: print the error and return 1.
Except ==
    /\ pc = "except"
    /\ stdout' = Append(stdout, "Unexpected error: " \o raised.error)
    /\ result' = 1
    /\ pc' = "done"
    /\ UNCHANGED <<USER_EMAIL, USER_PASSWORD, PATH_SECRET, now, requests,
                   inertia_version, xsrf_token, this_week_start,
                   next_week_start, this_week, next_week, timetable_data,
                   day_idx, item_idx, cal, calendar, file, prior_file, raised>>

----------------------------------------------------------------------------
(* The specifications *)

\* The locals of a run that has not started.
Fresh ==
    /\ requests = <<>>
    /\ inertia_version = <<>>
    /\ xsrf_token = <<>>
    /\ this_week_start = 0
    /\ next_week_start = 0
    /\ this_week = <<>>
    /\ next_week = <<>>
    /\ day_idx = 0
    /\ item_idx = 0
    /\ cal = <<>>
    /\ calendar = <<>>
    /\ raised = NotRaised
    /\ stdout = <<>>
    /\ result = -1

\* Wednesday 2024-03-06 12:00:00 UTC.
RunNow == DaysFromCivil(2024, 3, 6) * SecondsPerDay + 12 * 3600

\* A whole run of main: any environment, the file there or not.
Init ==
    /\ USER_EMAIL \in EnvValues
    /\ USER_PASSWORD \in EnvValues
    /\ PATH_SECRET \in EnvValues
    /\ pc = "main"
    /\ now = RunNow
    /\ timetable_data = <<>>
    /\ file \in {NoFile, OldFile}
    /\ prior_file = file
    /\ Fresh

Next ==
    \/ Main
    \/ GetEntry
    \/ Login
    \/ WeekStart
    \/ RequestThisWeek
    \/ RequestNextWeek
    \/ FetchReturn
    \/ ConvertBegin
    \/ ConvertItem
    \/ ConvertReturn
    \/ SaveCalendar
    \/ OpenFile
    \/ WriteFile
    \/ Except

Spec == Init /\ [][Next]_vars

MaxNowSteps == 672

\* Monday 2024-03-04 00:00:00 UTC.
NowBase == DaysFromCivil(2024, 3, 4) * SecondsPerDay

\* The clock readings of the week-window specification: every half hour of
\* MaxNowSteps half hours, on the half hour and one second before the next.
NowSet == {NowBase + k * 1800 + j : k \in 0..MaxNowSteps, j \in {0, 1799}}

\* fetch_timetable after the login, at any clock reading.
InitWeek ==
    /\ USER_EMAIL = JStr(<<"x">>)
    /\ USER_PASSWORD = JStr(<<"x">>)
    /\ PATH_SECRET = JStr(<<"x">>)
    /\ pc = "week_start"
    /\ now \in NowSet
    /\ timetable_data = <<>>
    /\ file = OldFile
    /\ prior_file = file
    /\ Fresh

NextWeek == WeekStart

SpecWeek == InitWeek /\ [][NextWeek]_vars

\* convert_to_ics on any table of at most MaxRecords records.
InitConvert ==
    /\ USER_EMAIL = JStr(<<"x">>)
    /\ USER_PASSWORD = JStr(<<"x">>)
    /\ PATH_SECRET = JStr(<<"x">>)
    /\ pc = "convert_begin"
    /\ now = RunNow
    /\ timetable_data \in ConvertTables
    /\ file = OldFile
    /\ prior_file = file
    /\ Fresh

NextConvert ==
    \/ ConvertBegin
    \/ ConvertItem
    \/ ConvertReturn

SpecConvert == InitConvert /\ [][NextConvert]_vars

----------------------------------------------------------------------------
(* The claims *)

\* A record has both a unique identifier and a scheduled timestamp.
HasBothKeys(item) ==
    /\ item.uuid.t = "str" /\ item.uuid.v # <<>>
    /\ item.published_at.t = "str" /\ item.published_at.v # <<>>

\* The records of a list that have both, in the order of the list.
Kept(records) == SelectSeq(records, HasBothKeys)

\* The item ConvertItem last worked on, once it has raised.
RaisingItem == timetable_data[day_idx][item_idx]

\* C1: a record without a uuid or without a published_at yields no event and
\* raises no error, whatever its other fields hold: convert_to_ics never
\* raises on such a record, and the events it returns are those of the
\* records that have both.
C1_MissingKeySkipped ==
    /\ raised.at = "convert" => HasBothKeys(RaisingItem)
    /\ pc = "save" => Len(cal) = Len(Kept(Flatten(timetable_data)))

\* C2: a run that ends in failure leaves the output file with the content it
\* had before the run.
C2_FailureLeavesFile == result = 1 => file = prior_file

\* C3: with the email, the password or the path secret unset or empty, main
\* returns 1 and no request is ever issued.
C3_NoRequestWithoutConfig ==
    (\E x \in {USER_EMAIL, USER_PASSWORD, PATH_SECRET} :
        x.t = "null" \/ x.v = <<>>)
    => /\ requests = <<>>
       /\ pc \in {"main", "done"}
       /\ pc = "done" => result = 1

C3_Witness ==
    /\ pc = "done"
    /\ result = 1
    /\ USER_EMAIL = JStr(<<"x">>)
    /\ USER_PASSWORD = JStr(<<"x">>)
    /\ PATH_SECRET = JNull
    /\ requests = <<>>

\* The i-th request of a run: its method, its URL and its weekStart.
ExpectedRequest(i) ==
    CASE i = 1 -> <<"GET", "https://app.digi1.lt/", 0>>
      [] i = 2 -> <<"POST", "https://app.digi1.lt/login", 0>>
      [] i = 3 -> <<"GET", "https://app.digi1.lt/teacher/dashboard",
                    this_week_start>>
      [] i = 4 -> <<"GET", "https://app.digi1.lt/teacher/dashboard",
                    next_week_start>>

Unparsed(item) ==
    /\ item.published_at.t = "str"
    /\ item.published_at.v # <<>>
    /\ ~strptime(item.published_at.v).ok

ConvertReturned ==
    \/ pc \in {"save", "open", "write"}
    \/ raised.at = "save"
    \/ result = 0

C7_OneHourEvents ==
    \A i \in 1..Len(cal) : cal[i].dtend = cal[i].dtstart + 3600

\* An event of 2024-10-27 03:30 Vilnius time, the hour the clocks repeat.
C7_Witness ==
    /\ pc = "save"
    /\ \E i \in 1..Len(cal) :
        cal[i].dtstart = 1729989000 /\ cal[i].dtend = 1729992600

\* Now minus the time since the latest Sunday 23:00:00 UTC (1970-01-04
\* 23:00:00 UTC is second 342000).
LatestSunday2300(t) == t - ((t - 342000) % 604800)

\* C8: at any clock reading the this-week boundary is the latest Sunday
\* 23:00:00 UTC not after it, and the next-week boundary is 7 days later.
C8_PrecedingSunday ==
    pc = "this_week"
    => /\ this_week_start = LatestSunday2300(now)
       /\ next_week_start = this_week_start + 604800

\* The UTC instants of the wall times of Europe/Vilnius in 2024, EET (UTC+2)
\* until 2024-03-31 03:00 and from 2024-10-27 04:00, EEST (UTC+3) between;
\* 03:30 on 31 March, which the clocks skip, counts as EET and 03:30 on 27
\* October as its first occurrence, in EEST.
VilniusTable ==
    {<<WinterTime, 1710072000>>,
     <<UnpaddedTime, 1710072000>>,
     <<SummerTime, 1718017200>>,
     <<Timestamp(2024, 3, 31, 3, 30, 0), 1711848600>>,
     <<Timestamp(2024, 3, 31, 4, 0, 0), 1711846800>>,
     <<Timestamp(2024, 10, 27, 2, 59, 59), 1729987199>>,
     <<Timestamp(2024, 10, 27, 3, 30, 0), 1729989000>>,
     <<Timestamp(2024, 10, 27, 4, 0, 0), 1729994400>>}

\* C9: the start of every event is the UTC instant of the record's timestamp
\* read as Europe/Vilnius wall time under the zone's rules: 2 hours earlier
\* in standard time, 3 hours earlier in summer time.
C9_StartIsVilniusTime ==
    pc = "save"
    => LET kept == Kept(Flatten(timetable_data))
       IN  /\ Len(cal) = Len(kept)
           /\ \A i \in 1..Len(kept) :
                <<kept[i].published_at.v, cal[i].dtstart>> \in VilniusTable

C9_Witness ==
    /\ pc = "save"
    /\ Len(cal) = 2
    /\ cal[1].dtstart = 1710072000
    /\ cal[2].dtstart = 1718017200

\* The value under key of the item's nested dict obj, or absent when the
\* item has no such dict.
Nested(item, obj, key) ==
    IF item[obj].t = "obj" THEN item[obj].v[key] ELSE JAbsent

\* The text a field adds to the summary: the placeholder when it is not
\* there, else its str().
Shown(x, placeholder) ==
    CASE x.t = "absent" -> placeholder
      [] x.t = "null" -> <<"N", "o", "n", "e">>
      [] x.t = "str" -> x.v

\* "{subject} {grade} - {first_name} {last_initial}" of a record.
ExpectedSummary(item) ==
    LET last == Nested(item, "user", "last_name")
    IN  Shown(Nested(item, "subject", "name"), UnknownSubject)
        \o <<" ">> \o Shown(Nested(item, "grade", "name"), UnknownGrade)
        \o <<" ", "-", " ">>
        \o Shown(Nested(item, "user", "first_name"), <<>>)
        \o <<" ">>
        \o (IF last.t = "str" /\ last.v # <<>>
            THEN <<Head(last.v), ".">> ELSE <<>>)

====
